---------------------------- MODULE Spec2Model ----------------------------
(***************************************************************************)
(* Masked batch normalization (func_active_bn.py): BatchNormalization,     *)
(* BatchNormalizationGrad, FixedBatchNormalization and the two entry       *)
(* points batch_normalization / fixed_batch_normalization.                 *)
(*                                                                         *)
(* Numbers.  A float is modelled by the real number it stands for, kept    *)
(* exactly, or by one of the three IEEE specials.  A rational is <<n, d>>  *)
(* in lowest terms with d > 0; +inf is <<1, 0>>, -inf is <<-1, 0>> and     *)
(* not-a-number is <<0, 0>>.  inv_std = var ** (-0.5) is irrational in     *)
(* general, so every value computed from it is kept as                     *)
(*     a + c1 * sqrt(n1) + ... + ck * sqrt(nk)                             *)
(* with a and the ci rationals and the ni distinct square-free integers    *)
(* greater than 1: <<a, {<<n1, c1>>, ..., <<nk, ck>>}>>, no ci zero.  The  *)
(* square roots of distinct square-free integers are linearly independent  *)
(* over the rationals, so two values are equal exactly when their tuples   *)
(* are.  Rounding, overflow and the sign of zero are not modelled.         *)
(***************************************************************************)
EXTENDS Integers, Sequences, FiniteSets, TLC

(***************************************************************************)
(* Rational arithmetic with inf and NaN.                                   *)
(***************************************************************************)
Abs(n) == IF n < 0 THEN -n ELSE n

Sgn(n) == IF n > 0 THEN 1 ELSE IF n < 0 THEN -1 ELSE 0

RECURSIVE Gcd(_, _)
Gcd(a, b) == IF b = 0 THEN a ELSE Gcd(b, a % b)

NaN == <<0, 0>>

IsNaN(q) == q = NaN

IsInf(q) == q[2] = 0 /\ q[1] # 0

\* n / d in lowest terms, d > 0; n / 0 is +inf, -inf or NaN by the sign of n
Rat(n, d) ==
    IF d = 0 THEN <<Sgn(n), 0>>
    ELSE <<(Sgn(d) * n) \div Gcd(Abs(n), Abs(d)), Abs(d) \div Gcd(Abs(n), Abs(d))>>

R(n) == <<n, 1>>

\* inf + (-inf) is NaN
RAdd(p, q) == IF IsNaN(p) \/ IsNaN(q) THEN NaN
              ELSE IF IsInf(p) THEN (IF IsInf(q) /\ q # p THEN NaN ELSE p)
              ELSE IF IsInf(q) THEN q
              ELSE Rat(p[1] * q[2] + q[1] * p[2], p[2] * q[2])

RNeg(p) == <<-p[1], p[2]>>

RSub(p, q) == RAdd(p, RNeg(q))

\* 0 * inf is NaN
RMul(p, q) == IF IsNaN(p) \/ IsNaN(q) THEN NaN
              ELSE Rat(p[1] * q[1], p[2] * q[2])

\* 1 / q: 1 / 0 is +inf, 1 / inf is 0
RInv(q) == IF IsNaN(q) THEN NaN
           ELSE IF IsInf(q) THEN R(0)
           ELSE IF q[1] = 0 THEN <<1, 0>>
           ELSE Rat(q[2], q[1])

\* p / q: x / 0 is +-inf by the sign of x, 0 / 0 and inf / inf are NaN
RDiv(p, q) == RMul(p, RInv(q))

RIsZero(p) == p[2] # 0 /\ p[1] = 0

\* p < q: FALSE when either is NaN
RLess(p, q) == ~IsNaN(p) /\ ~IsNaN(q) /\ p # q /\ p[1] * q[2] < q[1] * p[2]

\* floor of the square root of a natural number
Isqrt(n) == CHOOSE r \in 0..n : r * r <= n /\ (r + 1) * (r + 1) > n

\* the largest k with k * k dividing n, n >= 1
SquarePart(n) ==
    CHOOSE k \in 1..Isqrt(n) :
        /\ n % (k * k) = 0
        /\ \A j \in (k + 1)..Isqrt(n) : n % (j * j) # 0

\* the smallest prime factor of n, n >= 2
PrimeOf(n) == CHOOSE p \in 2..n : n % p = 0 /\ \A j \in 2..(p - 1) : n % j # 0

(***************************************************************************)
(* Values <<a, S>>: a + the sum of c * sqrt(n) over the terms <<n, c>> of  *)
(* S.  S is empty when a is inf or NaN.                                    *)
(***************************************************************************)
NumNaN == <<NaN, {}>>

NumR(q) == <<q, {}>>

NumIsNaN(u) == IsNaN(u[1])

NumIsInf(u) == IsInf(u[1])

NumIsZero(u) == RIsZero(u[1]) /\ u[2] = {}

\* the coefficient of sqrt(n) in a finite u; sqrt(1) has the rational part
Coef(u, n) ==
    IF n = 1 THEN u[1]
    ELSE IF \E t \in u[2] : t[1] = n THEN (CHOOSE t \in u[2] : t[1] = n)[2]
    ELSE R(0)

\* the terms of a finite u, the rational part as the term of sqrt(1)
Terms(u) == (IF u[1][1] = 0 THEN {} ELSE {<<1, u[1]>>}) \cup u[2]

\* the value whose coefficient of sqrt(n) is c[n], n in D
Build(c, D) ==
    <<IF 1 \in D THEN c[1] ELSE R(0),
      {<<n, c[n]>> : n \in {k \in D : k # 1 /\ c[k][1] # 0}}>>

NNeg(u) == <<RNeg(u[1]), {<<t[1], RNeg(t[2])>> : t \in u[2]}>>

NAdd(u, w) ==
    IF NumIsNaN(u) \/ NumIsNaN(w) THEN NumNaN
    ELSE IF NumIsInf(u) \/ NumIsInf(w) THEN NumR(RAdd(u[1], w[1]))
    ELSE Build([n \in {1} \cup {t[1] : t \in u[2] \cup w[2]} |->
                   RAdd(Coef(u, n), Coef(w, n))],
               {1} \cup {t[1] : t \in u[2] \cup w[2]})

NSub(u, w) == NAdd(u, NNeg(w))

\* sqrt(m) * sqrt(n) = g * sqrt(m * n / g^2) for square-free m and n with
\* greatest common divisor g
RadMul(m, n) == (m * n) \div (Gcd(m, n) * Gcd(m, n))

\* the sum of the products of the pairs of terms in P
RECURSIVE PairSum(_)
PairSum(P) ==
    IF P = {} THEN R(0)
    ELSE LET pr == CHOOSE q \in P : TRUE
         IN  RAdd(RMul(RMul(pr[1][2], pr[2][2]), R(Gcd(pr[1][1], pr[2][1]))),
                  PairSum(P \ {pr}))

\* the product of two finite values
FiniteMul(u, w) ==
    Build([m \in {RadMul(pr[1][1], pr[2][1]) : pr \in Terms(u) \X Terms(w)} |->
              PairSum({pr \in Terms(u) \X Terms(w) : RadMul(pr[1][1], pr[2][1]) = m})],
          {RadMul(pr[1][1], pr[2][1]) : pr \in Terms(u) \X Terms(w)})

\* the part of a finite u without sqrt(p): the terms whose n p does not divide
Without(u, p) == <<u[1], {t \in u[2] : t[1] % p # 0}>>

\* the cofactor of sqrt(p) in a finite u: u = Without(u, p) + sqrt(p) * Over(u, p)
Over(u, p) ==
    <<Coef(u, p), {<<t[1] \div p, t[2]>> : t \in {s \in u[2] : s[1] % p = 0 /\ s[1] # p}}>>

\* the sign of P + sqrt(p) * Q from the signs sP of P and sQ of Q and the
\* sign sD of P * P - p * Q * Q
SignOfSum(sP, sQ, sD) ==
    IF sQ = 0 THEN sP
    ELSE IF sP = 0 THEN sQ
    ELSE IF sP = sQ THEN sP
    ELSE sP * sD

\* the sign (-1, 0, 1) of a value that is not NaN
RECURSIVE NSign(_)
NSign(u) ==
    IF u[2] = {} THEN Sgn(u[1][1])
    ELSE LET p == PrimeOf((CHOOSE t \in u[2] : TRUE)[1])
         IN  SignOfSum(NSign(Without(u, p)), NSign(Over(u, p)),
                       IF NSign(Without(u, p)) * NSign(Over(u, p)) = -1
                       THEN NSign(NSub(FiniteMul(Without(u, p), Without(u, p)),
                                       FiniteMul(NumR(R(p)),
                                                 FiniteMul(Over(u, p), Over(u, p)))))
                       ELSE 0)

\* inf * w is inf with the product's sign, NaN when w is 0
NMul(u, w) ==
    IF NumIsNaN(u) \/ NumIsNaN(w) THEN NumNaN
    ELSE IF NumIsInf(u) \/ NumIsInf(w) THEN NumR(Rat(NSign(u) * NSign(w), 0))
    ELSE FiniteMul(u, w)

\* sqrt(q): NaN when q < 0; sqrt(n / d) = (k / d) * sqrt(m) with
\* n * d = k * k * m and m square-free
Sqrt(q) ==
    IF IsNaN(q) \/ q[1] < 0 THEN NumNaN
    ELSE IF IsInf(q) \/ q[1] = 0 THEN NumR(q)
    ELSE IF q[1] * q[2] = SquarePart(q[1] * q[2]) * SquarePart(q[1] * q[2])
         THEN NumR(Rat(SquarePart(q[1] * q[2]), q[2]))
         ELSE <<R(0), {<<(q[1] * q[2]) \div (SquarePart(q[1] * q[2]) * SquarePart(q[1] * q[2])),
                         Rat(SquarePart(q[1] * q[2]), q[2])>>}>>

\* v ** (-0.5): inf for v = 0, NaN for v < 0
InvSqrt(v) == Sqrt(RInv(v))

(***************************************************************************)
(* Arrays.  An array is [shape, dtype, data]; data maps an index (the      *)
(* empty tuple for a 0-d array, a number for a 1-d one, a tuple with one   *)
(* entry per axis otherwise, 0-based) to its element.  x is (batch,        *)
(* channel, position); gamma and beta have the shape of x's axes after the *)
(* first, or of the first of them: (channel), or (channel, position).      *)
(* None is the empty tuple.                                                *)
(***************************************************************************)
None == <<>>

XShape == <<2, 2, 2>>

NB == XShape[1]
NC == XShape[2]
NL == XShape[3]

Batch == 0..(NB - 1)
Chan == 0..(NC - 1)
Pos == 0..(NL - 1)

Max(a, b) == IF a >= b THEN a ELSE b

\* the largest entry of a shape
RECURSIVE MaxDim(_)
MaxDim(shape) ==
    IF shape = <<>> THEN 0
    ELSE IF Head(shape) >= MaxDim(Tail(shape)) THEN Head(shape)
    ELSE MaxDim(Tail(shape))

\* a.size: the product of the entries of a.shape
RECURSIVE Size(_)
Size(shape) == IF shape = <<>> THEN 1 ELSE Head(shape) * Size(Tail(shape))

\* the indices of an array of this shape, of any rank
IdxOf(shape) ==
    IF Len(shape) = 0 THEN {<<>>}
    ELSE IF Len(shape) = 1 THEN 0..(shape[1] - 1)
    ELSE IF Len(shape) = 2 THEN (0..(shape[1] - 1)) \X (0..(shape[2] - 1))
    ELSE IF Len(shape) = 3
    THEN (0..(shape[1] - 1)) \X (0..(shape[2] - 1)) \X (0..(shape[3] - 1))
    ELSE {t \in [1..Len(shape) -> 0..(MaxDim(shape) - 1)] :
             \A k \in 1..Len(shape) : t[k] < shape[k]}

\* an index as a tuple with one entry per axis, and back
AsTuple(shape, i) == IF Len(shape) = 1 THEN <<i>> ELSE i

FromTuple(t) == IF Len(t) = 1 THEN t[1] ELSE t

Idx == IdxOf(XShape)

FloatDtypes == {"float16", "float32", "float64"}

IntDtypes == {"int8", "int16", "int32", "int64", "uint8", "uint16", "uint32", "uint64"}

RECURSIVE SeqSum(_)
SeqSum(s) == IF s = <<>> THEN R(0) ELSE RAdd(Head(s), SeqSum(Tail(s)))

\* The array a with every element evaluated, as numpy holds it: a function
\* written [i \in S |-> e] is evaluated anew at every application, the
\* comparison evaluates it once and for all
Computed(a) == IF a = None THEN a ELSE IF a.data = a.data THEN a ELSE a

\* numpy.zeros_like(gamma)
zeros_like(a) == [a EXCEPT !.data = [i \in DOMAIN a.data |-> R(0)]]

\* An elementwise operation is named by a tuple: its name, then the scalar
\* it takes from the statement.  On one element v:
\*   "NumR" the rational v as a value, "InvSqrt" v ** (-0.5),
\*   "reciprocal" xp.reciprocal, "sqrt" xp.sqrt, "plus" v + k and "times"
\*   v * k for rationals v and k, "ntimes" v * k for values v and k
Unary(op, v) ==
    CASE op[1] = "NumR" -> NumR(v)
      [] op[1] = "InvSqrt" -> InvSqrt(v)
      [] op[1] = "reciprocal" -> RDiv(R(1), v)
      [] op[1] = "sqrt" -> Sqrt(v)
      [] op[1] = "plus" -> RAdd(v, op[2])
      [] op[1] = "times" -> RMul(v, op[2])
      [] op[1] = "ntimes" -> NMul(v, op[2])

\* On two elements u and w:
\*   "x - mean" of rationals, a value; "mul", "add", "sub" of values;
\*   "gamma * x_hat" of a rational and a value; "y += beta" of a value and
\*   a rational; "arr += k * stat" of rationals; "y *= mask" of a value and
\*   an element of a mask of dtype k: True is 1, False is 0
Binary(op, u, w) ==
    CASE op[1] = "x - mean" -> NumR(RSub(u, w))
      [] op[1] = "mul" -> NMul(u, w)
      [] op[1] = "add" -> NAdd(u, w)
      [] op[1] = "sub" -> NSub(u, w)
      [] op[1] = "gamma * x_hat" -> NMul(NumR(u), w)
      [] op[1] = "y += beta" -> NAdd(u, NumR(w))
      [] op[1] = "arr += k * stat" -> RAdd(u, RMul(op[2], w))
      [] op[1] = "y *= mask" ->
            NMul(u, NumR(IF op[2] = "bool" THEN R(IF w THEN 1 ELSE 0)
                         ELSE IF op[2] \in IntDtypes THEN R(w)
                         ELSE w))

\* an operation of one array, element by element, into a new array of the
\* same shape
Map(op, a) == [a EXCEPT !.data = [i \in DOMAIN a.data |-> Unary(op, a.data[i])]]

\* numpy.asarray(a): None becomes a 0-d array of dtype object
asarray(a) ==
    IF a = None
    THEN [shape |-> <<>>, dtype |-> "object", data |-> [i \in {<<>>} |-> None]]
    ELSE a

\* numpy's broadcasting rule: the shapes are aligned at the last axis, the
\* missing leading axes count as 1, and every axis is 1 or the target's
CanBroadcast(from, to) ==
    /\ Len(from) <= Len(to)
    /\ \A k \in 1..Len(from) :
          from[k] = 1 \/ from[k] = to[k + Len(to) - Len(from)]

\* the k-th axis of a shape counted from the last, 1 where there is none
DimFromEnd(s, k) == IF k <= Len(s) THEN s[Len(s) - k + 1] ELSE 1

\* the operands of a binary operation broadcast together: aligned at the
\* last axis, every pair of axes is equal or has a 1
Compatible(s, t) ==
    \A k \in 1..Max(Len(s), Len(t)) :
        \/ DimFromEnd(s, k) = DimFromEnd(t, k)
        \/ DimFromEnd(s, k) = 1
        \/ DimFromEnd(t, k) = 1

\* the shape of the result of a binary operation on compatible operands
BShape(s, t) ==
    [k \in 1..Max(Len(s), Len(t)) |->
        IF DimFromEnd(s, Max(Len(s), Len(t)) - k + 1) = 1
        THEN DimFromEnd(t, Max(Len(s), Len(t)) - k + 1)
        ELSE DimFromEnd(s, Max(Len(s), Len(t)) - k + 1)]

\* the element of arr that index t (a tuple) of the broadcast array, of rank
\* n, shows
BroadcastFrom(arr, n, t) ==
    arr.data[FromTuple([k \in 1..Len(arr.shape) |->
                          IF arr.shape[k] = 1 THEN 0
                          ELSE t[k + n - Len(arr.shape)]])]

\* numpy.broadcast_to(mask, shape): None when the shapes do not broadcast
\* (ValueError)
broadcast_to(mask, shape) ==
    IF ~CanBroadcast(asarray(mask).shape, shape) THEN None
    ELSE [shape |-> shape, dtype |-> asarray(mask).dtype,
          data  |-> [i \in IdxOf(shape) |->
                       BroadcastFrom(asarray(mask), Len(shape), AsTuple(shape, i))]]

\* a op b for operands that broadcast together: a new array of the
\* broadcast shape
Zip(op, a, b) ==
    [shape |-> BShape(a.shape, b.shape), dtype |-> a.dtype,
     data  |-> [i \in IdxOf(BShape(a.shape, b.shape)) |->
                  Binary(op,
                         BroadcastFrom(a, Len(BShape(a.shape, b.shape)),
                                       AsTuple(BShape(a.shape, b.shape), i)),
                         BroadcastFrom(b, Len(BShape(a.shape, b.shape)),
                                       AsTuple(BShape(a.shape, b.shape), i)))]]

\* a op= b, for b that broadcasts to a's shape: a keeps its shape
InPlace(op, a, b) ==
    [a EXCEPT !.data =
        [i \in DOMAIN a.data |->
            Binary(op, a.data[i],
                   BroadcastFrom(b, Len(a.shape), AsTuple(a.shape, i)))]]

\* a[expander] for expander = (None, Ellipsis) + (None,) * k: an axis of
\* length 1 before a's axes and k of them after
expand(a, expander_) ==
    LET sh == <<1>> \o a.shape \o [j \in 1..(Len(expander_) - 2) |-> 1]
    IN  [shape |-> sh, dtype |-> a.dtype,
         data  |-> [i \in IdxOf(sh) |->
                      a.data[FromTuple([k \in 1..Len(a.shape) |->
                                           AsTuple(sh, i)[k + 1]])]]]

\* a.transpose(0, 2, 1) of a 3-d array
transpose021(a) ==
    LET sh == <<a.shape[1], a.shape[3], a.shape[2]>>
    IN  [shape |-> sh, dtype |-> a.dtype,
         data  |-> [i \in IdxOf(sh) |-> a.data[<<i[1], i[3], i[2]>>]]]

\* The indices of an array of this shape in C order (last axis fastest)
COrder(shape) ==
    [k \in 1..(shape[1] * shape[2] * shape[3]) |->
        <<(k - 1) \div (shape[2] * shape[3]),
          ((k - 1) \div shape[3]) % shape[2],
          (k - 1) % shape[3]>>]

\* a[mask] that takes every element, whatever the mask says
BoolIndex_all(a, mask) ==
    [k \in 1..Len(COrder(a.shape)) |-> a.data[COrder(a.shape)[k]]]

\* a[mask] for a boolean mask of a's shape: the selected elements in C order
BoolIndex(a, mask) ==
    LET IsOn(i) == mask.data[i]
        sel == SelectSeq(COrder(a.shape), IsOn)
    IN  [k \in 1..Len(sel) |-> a.data[sel[k]]]

\* a[mask] for an integer mask: every element k of the mask, in C order,
\* selects the sub-array a[k] along axis 0 (a negative k counts from the
\* end); the selected sub-arrays' elements in C order
IntIndex(a, mask) ==
    [n \in 1..(Len(COrder(mask.shape)) * a.shape[2] * a.shape[3]) |->
        a.data[<<mask.data[COrder(mask.shape)[(n - 1) \div (a.shape[2] * a.shape[3]) + 1]]
                    % a.shape[1],
                 ((n - 1) % (a.shape[2] * a.shape[3])) \div a.shape[3],
                 (n - 1) % a.shape[3]>>]]

\* a[mask] raises no IndexError, for a 3-d a and a 3-d mask: the mask is
\* boolean and of a's shape, or it is an integer array whose elements are
\* within axis 0 of a; an array of floats or objects is not an index
CanIndex(a, mask) ==
    \/ mask.dtype = "bool" /\ mask.shape = a.shape
    \/ /\ mask.dtype \in IntDtypes
       /\ \A i \in DOMAIN mask.data :
             mask.data[i] \in (-a.shape[1])..(a.shape[1] - 1)

\* a[mask] for a 3-d a: a boolean mask selects elements, an integer mask
\* sub-arrays
Select(a, mask) ==
    IF mask.dtype = "bool" THEN BoolIndex(a, mask) ELSE IntIndex(a, mask)

\* flat.reshape(-1, n), a 2-d array: None when the size is not a multiple
\* of n (ValueError)
reshape(flat, n, dtype) ==
    IF Len(flat) % n # 0 THEN None
    ELSE [shape |-> <<Len(flat) \div n, n>>, dtype |-> dtype,
          data  |-> [i \in IdxOf(<<Len(flat) \div n, n>>) |->
                       flat[i[1] * n + i[2] + 1]]]

\* m.mean(axis=0) of a 2-d array: the mean of an empty column is NaN
mean_axis0(m) ==
    [shape |-> <<m.shape[2]>>, dtype |-> m.dtype,
     data  |-> [j \in 0..(m.shape[2] - 1) |->
                  RDiv(SeqSum([r \in 1..m.shape[1] |-> m.data[<<r - 1, j>>]]),
                       R(m.shape[1]))]]

\* m.var(axis=0): the mean of the squared deviations from the mean
var_axis0(m) ==
    LET mu == mean_axis0(m).data
        Sq(q) == RMul(q, q)
    IN  [shape |-> <<m.shape[2]>>, dtype |-> m.dtype,
         data  |-> [j \in 0..(m.shape[2] - 1) |->
                      RDiv(SeqSum([r \in 1..m.shape[1] |->
                                      Sq(RSub(m.data[<<r - 1, j>>], mu[j]))]),
                           R(m.shape[1]))]]

\* _x_hat: x_mu = x - mean allocates a new array, x_mu *= inv_std works in
\* place on it.  x and mean are arrays of rationals, inv_std is an array of
\* values of mean's shape.  The result is [exc, x, ret]: ValueError when x
\* and mean do not broadcast together, the caller's array x as the call
\* leaves it, and the returned x_mu, an array of values.
_x_hat(x, mean, inv_std) ==
    IF ~Compatible(x.shape, mean.shape)
    THEN [exc |-> "ValueError", x |-> x, ret |-> None]
    ELSE [exc |-> "", x |-> x,
          ret |-> InPlace(<<"mul">>, Zip(<<"x - mean">>, x, mean), inv_std)]

\* lines 294-295 without y += beta
ScaleShift_nobeta(xh, gamma, beta) ==
    IF xh.exc # "" THEN xh
    ELSE [exc |-> "", x |-> xh.x, ret |-> Zip(<<"gamma * x_hat">>, gamma, xh.ret)]

\* lines 294-295 on xh, what _x_hat has returned: y = gamma * x_hat
\* allocates y, y += beta works in place on it
ScaleShift(xh, gamma, beta) ==
    IF xh.exc # "" THEN xh
    ELSE IF ~Compatible(gamma.shape, xh.ret.shape)
           \/ ~CanBroadcast(beta.shape, BShape(gamma.shape, xh.ret.shape))
    THEN [exc |-> "ValueError", x |-> xh.x, ret |-> None]
    ELSE [exc |-> "", x |-> xh.x,
          ret |-> InPlace(<<"y += beta">>, Zip(<<"gamma * x_hat">>, gamma, xh.ret),
                          beta)]

\* _apply_bn_fwd, the numpy branch.  The result is [exc, x, ret] as for
\* _x_hat.
_apply_bn_fwd(x, mean, inv_std, gamma, beta) ==
    ScaleShift(_x_hat(x, mean, inv_std), gamma, beta)

(***************************************************************************)
(* class BatchNormalization                                                *)
(*                                                                         *)
(* running_mean and running_var are references: None, or <<cell>> naming   *)
(* a cell of the heap.  "caller_mean" and "caller_var" are the arrays the  *)
(* caller passed in; "own_mean" and "own_var" are the arrays forward       *)
(* allocates itself.  An in-place operation changes the heap cell.         *)
(* Attributes that are not set yet are None.                               *)
(***************************************************************************)
\* lines 28-31: with cuDNN in use the constructor raises RuntimeError for
\* an eps below 1e-5
CudnnRejects(should_use_cudnn, eps) ==
    should_use_cudnn /\ RLess(eps, Rat(1, 100000))

\* BatchNormalization.__init__: the new object, or None when it raises
\* RuntimeError.  should_use_cudnn is chainer.should_use_cudnn('>=auto').
BatchNormalization(should_use_cudnn, eps, mean, var, decay, active_len, mask) ==
    IF CudnnRejects(should_use_cudnn, eps) THEN None
    ELSE [class |-> "BatchNormalization",
          running_mean |-> mean, running_var |-> var, active_len |-> active_len,
          mask |-> mask, orig_mask |-> mask, eps |-> eps, decay |-> decay,
          mean |-> None, inv_std |-> None,
          mode |-> None, expander |-> None, axis |-> None, inputs |-> None]

\* check_type_forward without gamma_type.shape == beta_type.shape
check_type_forward_noshape(in_types) ==
    /\ Len(in_types) = 3
    /\ in_types[1].dtype \in FloatDtypes
    /\ Len(in_types[1].shape) >= Len(in_types[2].shape) + 1
    /\ SubSeq(in_types[1].shape, 2, 1 + Len(in_types[2].shape)) = in_types[2].shape
    /\ in_types[2].dtype = in_types[1].dtype
    /\ in_types[3].dtype = in_types[1].dtype

\* BatchNormalization.check_type_forward: TRUE when type_check.expect passes
check_type_forward(in_types) ==
    /\ Len(in_types) = 3
    /\ LET x_type == in_types[1]
           gamma_type == in_types[2]
           beta_type == in_types[3]
           M == Len(gamma_type.shape)
       IN  /\ x_type.dtype \in FloatDtypes
           /\ Len(x_type.shape) >= Len(gamma_type.shape) + 1
           /\ SubSeq(x_type.shape, 2, 1 + M) = gamma_type.shape
           /\ gamma_type.dtype = x_type.dtype
           /\ beta_type.dtype = x_type.dtype
           /\ gamma_type.shape = beta_type.shape

_BNMode(x, gamma) ==
    LET is_gamma_1d == Len(gamma.shape) = 1
        is_for_conv2d == Len(x.shape) = 4 /\ is_gamma_1d
        is_for_linear == Len(x.shape) = 2 /\ is_gamma_1d
    IN  [is_for_conv2d |-> is_for_conv2d, is_for_linear |-> is_for_linear,
         cudnn_dim_ok |-> is_for_conv2d \/ is_for_linear,
         cudnn_dtype_ok |-> is_for_conv2d \/ x.dtype # "float16"]

\* the update without arr *= decay
UpdateRunning_nodecay(arr, decay, stat) ==
    IF arr.dtype \notin FloatDtypes THEN [exc |-> "TypeError", arr |-> arr]
    ELSE IF ~CanBroadcast(stat.shape, arr.shape)
    THEN [exc |-> "ValueError", arr |-> arr]
    ELSE [exc |-> "",
          arr |-> InPlace(<<"arr += k * stat", RSub(R(1), decay)>>, arr, stat)]

\* arr *= decay; arr += (1 - decay) * stat, on a heap cell: [exc, arr], arr
\* the cell as the two statements leave it.  Scaling an array of integers
\* or booleans by a float in place is a casting error (TypeError) that
\* changes nothing; a stat that does not broadcast to arr's shape is a
\* ValueError of the second statement, after the first has scaled arr.
UpdateRunning(arr, decay, stat) ==
    IF arr.dtype \notin FloatDtypes THEN [exc |-> "TypeError", arr |-> arr]
    ELSE IF ~CanBroadcast(stat.shape, arr.shape)
    THEN [exc |-> "ValueError", arr |-> Map(<<"times", decay>>, arr)]
    ELSE [exc |-> "",
          arr |-> InPlace(<<"arr += k * stat", RSub(R(1), decay)>>,
                          Map(<<"times", decay>>, arr), stat)]

\* y *= mask, for a mask that broadcasts to y's shape
TimesMask(y, mask) == InPlace(<<"y *= mask", mask.dtype>>, y, mask)

\* What a call leaves behind: the exception raised ("" when none), the
\* instance, the heap, the caller's input arrays as the call leaves them, the
\* data of the returned arrays, and the locals var and m.
Outcome(exc, self, heap, inputs, out, var, m) ==
    [exc |-> exc, self |-> self, heap |-> heap, inputs |-> inputs,
     out |-> out, var |-> var, m |-> m]

\* line 62: (None, Ellipsis) + (None,) * (x.ndim - head_ndim)
ExpanderOf(x, gamma) ==
    <<"None", "Ellipsis">>
    \o [k \in 1..(Len(x.shape) - (Len(gamma.shape) + 1)) |-> "None"]

\* line 64: (0,) + tuple(range(head_ndim, x.ndim))
AxisOf(x, gamma) ==
    <<0>> \o [k \in 1..(Len(x.shape) - (Len(gamma.shape) + 1)) |-> Len(gamma.shape) + k]

\* lines 84-86, new_var what lines 84-85 make of running_var
forward_return(self, heap, after, var, y, m, new_var) ==
    IF new_var.exc # ""
    THEN Outcome(new_var.exc, self,
                 [heap EXCEPT ![self.running_var[1]] = new_var.arr], after,
                 None, var.data, m)
    ELSE Outcome("", self, [heap EXCEPT ![self.running_var[1]] = new_var.arr],
                 after, <<TimesMask(y, asarray(self.orig_mask)).data>>, var.data, m)

\* lines 81, 84-85: None *= decay is a TypeError; the statistic is
\* adjust * var
forward_var(self, heap, after, var, y, m) ==
    IF self.running_var = None
    THEN Outcome("TypeError", self, heap, after, None, var.data, m)
    ELSE forward_return(self, heap, after, var, y, m,
                        UpdateRunning(heap[self.running_var[1]], self.decay,
                                      Map(<<"times", Rat(m, Max(m - 1, 1))>>, var)))

\* lines 82-83, new_mean what they make of running_mean
forward_mean(self, heap, after, var, y, m, new_mean) ==
    IF new_mean.exc # ""
    THEN Outcome(new_mean.exc, self,
                 [heap EXCEPT ![self.running_mean[1]] = new_mean.arr], after,
                 None, var.data, m)
    ELSE forward_var(self, [heap EXCEPT ![self.running_mean[1]] = new_mean.arr],
                     after, var, y, m)

\* lines 77-83, fwd what _apply_bn_fwd has returned: gamma is
\* gamma[expander] by line 80, of gamma's size
forward_update(self, heap, inputs, active_x, var, fwd) ==
    IF fwd.exc # ""
    THEN Outcome(fwd.exc, self, heap, <<fwd.x, inputs[2], inputs[3]>>, None,
                 var.data, 0)
    ELSE forward_mean(self, heap, <<fwd.x, inputs[2], inputs[3]>>, var, fwd.ret,
                      Size(active_x.shape) \div Size(inputs[2].shape),
                      UpdateRunning(heap[self.running_mean[1]], self.decay, self.mean))

\* lines 73-78, for the mean, var and inv_std of lines 73-75
forward_apply(self, heap, inputs, active_x, mean, var, inv_std) ==
    forward_update([self EXCEPT !.mean = mean, !.inv_std = inv_std], heap, inputs,
                   active_x, var,
                   _apply_bn_fwd(inputs[1], expand(mean, self.expander),
                                 expand(inv_std, self.expander),
                                 expand(inputs[2], self.expander),
                                 expand(inputs[3], self.expander)))

\* lines 72-75, active_x what line 72 has selected and reshaped
forward_stats(self, heap, inputs, active_x) ==
    IF active_x = None
    THEN Outcome("ValueError", self, heap, inputs, None, None, 0)
    ELSE forward_apply(self, heap, inputs, active_x, Computed(mean_axis0(active_x)),
                       Computed(Map(<<"plus", self.eps>>, var_axis0(active_x))),
                       Computed(Map(<<"InvSqrt">>,
                                    Map(<<"plus", self.eps>>, var_axis0(active_x)))))

\* lines 68-72, bmask what line 68 has made of the mask; a mask of None is
\* a 0-d object array and broadcasts
forward_mask(self, heap, inputs, bmask) ==
    IF bmask = None
    THEN Outcome("ValueError", self, heap, inputs, None, None, 0)
    ELSE IF Len(inputs[1].shape) # 3
    \* line 69: transpose(0, 2, 1) needs three axes
    THEN Outcome("ValueError", [self EXCEPT !.mask = bmask], heap, inputs,
                 None, None, 0)
    ELSE IF ~CanIndex(transpose021(inputs[1]), transpose021(bmask))
    \* lines 70-72: an array of floats or objects is not an index, and an
    \* integer must be within axis 0
    THEN Outcome("IndexError", [self EXCEPT !.mask = transpose021(bmask)], heap,
                 inputs, None, None, 0)
    ELSE forward_stats([self EXCEPT !.mask = transpose021(bmask)], heap, inputs,
                       Computed(reshape(Select(transpose021(inputs[1]),
                                               transpose021(bmask)),
                                        inputs[1].shape[2], inputs[1].dtype)))

\* BatchNormalization.forward, inputs = <<x, gamma, beta>>.  Lines 54-64:
\* zero arrays of gamma's shape when no running_mean was given, and the
\* attributes forward sets before it looks at the mask.
forward(self, heap, inputs) ==
    forward_mask([self EXCEPT
                     !.running_mean = IF self.running_mean = None
                                      THEN <<"own_mean">> ELSE @,
                     !.running_var = IF self.running_mean = None
                                     THEN <<"own_var">> ELSE @,
                     !.mode = _BNMode(inputs[1], inputs[2]),
                     !.expander = ExpanderOf(inputs[1], inputs[2]),
                     !.axis = AxisOf(inputs[1], inputs[2])],
                 IF self.running_mean = None
                 THEN [heap EXCEPT !["own_mean"] = zeros_like(inputs[2]),
                                   !["own_var"] = zeros_like(inputs[2])]
                 ELSE heap,
                 inputs, broadcast_to(self.mask, inputs[1].shape))

(***************************************************************************)
(* class BatchNormalizationGrad                                            *)
(***************************************************************************)
BatchNormalizationGrad(eps, mode, expander_, axis, mean, inv_std, active_len, orig_mask, mask) ==
    [eps |-> eps, mode |-> mode, expander |-> expander_, axis |-> axis,
     mean |-> mean, inv_std |-> inv_std, active_len |-> active_len,
     mask |-> mask, orig_mask |-> orig_mask]

RECURSIVE NumSeqSum(_)
NumSeqSum(s) == IF s = <<>> THEN NumR(R(0)) ELSE NAdd(Head(s), NumSeqSum(Tail(s)))

\* m.sum(axis=0) of a 2-d array of values
sum_axis0(m) ==
    [shape |-> <<m.shape[2]>>, dtype |-> m.dtype,
     data  |-> [j \in 0..(m.shape[2] - 1) |->
                  NumSeqSum([r \in 1..m.shape[1] |-> m.data[<<r - 1, j>>]])]]

\* What BatchNormalizationGrad.forward leaves behind: the exception raised,
\* the object f and the arrays x, gamma and gy as the call leaves them, and
\* the data of gx, ggamma and gbeta.
GradOutcome(exc, f, inputs, out) ==
    [exc |-> exc, f |-> f, inputs |-> inputs, out |-> out]

\* a[expander].shape
ExpandedShape(shape, expander_) ==
    <<1>> \o shape \o [j \in 1..(Len(expander_) - 2) |-> 1]

\* the shapes of lines 129-130 broadcast together
GradXShapesOk(e, gamma, inv_std, gy, x_hat, ggamma, gbeta) ==
    /\ Compatible(gamma, inv_std)
    /\ Compatible(x_hat, ExpandedShape(ggamma, e))
    /\ Compatible(BShape(x_hat, ExpandedShape(ggamma, e)), ExpandedShape(gbeta, e))
    /\ Compatible(gy, BShape(BShape(x_hat, ExpandedShape(ggamma, e)),
                             ExpandedShape(gbeta, e)))
    /\ Compatible(ExpandedShape(BShape(gamma, inv_std), e),
                  BShape(gy, BShape(BShape(x_hat, ExpandedShape(ggamma, e)),
                                    ExpandedShape(gbeta, e))))

\* line 145, gx what lines 129-130 have computed: gx *= orig_mask works in
\* place on gx
grad_mask(f, after, gx, ggamma, gbeta) ==
    IF ~CanBroadcast(asarray(f.orig_mask).shape, gx.shape)
    THEN GradOutcome("ValueError", f, after, None)
    ELSE GradOutcome("", f, after,
                     <<TimesMask(gx, asarray(f.orig_mask)).data, ggamma.data,
                       gbeta.data>>)

\* lines 129-130, for operands that broadcast together: every operation
\* allocates its result
grad_gx(f, after, x_hat, ggamma, gbeta, inv_m) ==
    IF ~GradXShapesOk(f.expander, after[2].shape, f.inv_std.shape, after[3].shape,
                      x_hat.shape, ggamma.shape, gbeta.shape)
    THEN GradOutcome("ValueError", f, after, None)
    ELSE grad_mask(f, after,
                   Zip(<<"mul">>,
                       expand(Zip(<<"gamma * x_hat">>, after[2], f.inv_std), f.expander),
                       Zip(<<"sub">>, Map(<<"NumR">>, after[3]),
                           Map(<<"ntimes", inv_m>>,
                               Zip(<<"add">>,
                                   Zip(<<"mul">>, x_hat, expand(ggamma, f.expander)),
                                   expand(gbeta, f.expander))))),
                   ggamma, gbeta)

\* lines 123-127, active_x_hat what line 126 has selected and reshaped
grad_ggamma(f, after, active_gy, x_hat, active_x_hat) ==
    IF active_x_hat = None THEN GradOutcome("ValueError", f, after, None)
    ELSE IF ~Compatible(active_gy.shape, active_x_hat.shape)
    THEN GradOutcome("ValueError", f, after, None)
    ELSE grad_gx(f, after, x_hat,
                 sum_axis0(Zip(<<"mul">>, active_gy, active_x_hat)),
                 sum_axis0(active_gy),
                 NumR(Rat(1, Size(active_gy.shape) \div Size(after[2].shape))))

\* lines 125-126, xh what _x_hat has returned
grad_x_hat(f, inputs, active_gy, xh) ==
    IF xh.exc # "" THEN GradOutcome(xh.exc, f, inputs, None)
    ELSE IF Len(xh.ret.shape) # 3
    THEN GradOutcome("ValueError", f, <<xh.x, inputs[2], inputs[3]>>, None)
    ELSE IF ~CanIndex(transpose021(xh.ret), f.mask)
    THEN GradOutcome("IndexError", f, <<xh.x, inputs[2], inputs[3]>>, None)
    ELSE grad_ggamma(f, <<xh.x, inputs[2], inputs[3]>>, active_gy, xh.ret,
                     reshape(Select(transpose021(xh.ret), f.mask),
                             active_gy.shape[2], inputs[1].dtype))

\* lines 121-125, active_gy what line 121 has selected and reshaped
grad_inv_m(f, inputs, active_gy) ==
    IF active_gy = None THEN GradOutcome("ValueError", f, inputs, None)
    \* line 123: 1. / 0
    ELSE IF Size(active_gy.shape) \div Size(inputs[2].shape) = 0
    THEN GradOutcome("ZeroDivisionError", f, inputs, None)
    ELSE grad_x_hat(f, inputs, active_gy,
                    _x_hat(inputs[1], expand(f.mean, f.expander),
                           expand(f.inv_std, f.expander)))

\* BatchNormalizationGrad.forward, the numpy branch, inputs = <<x, gamma, gy>>
GradForward(f, inputs) ==
    \* line 120: transpose(0, 2, 1) needs three axes
    IF Len(inputs[3].shape) # 3 THEN GradOutcome("ValueError", f, inputs, None)
    \* line 121
    ELSE IF ~CanIndex(transpose021(inputs[3]), f.mask)
    THEN GradOutcome("IndexError", f, inputs, None)
    ELSE grad_inv_m(f, inputs,
                    reshape(Select(transpose021(Map(<<"NumR">>, inputs[3])), f.mask),
                            inputs[3].shape[2], inputs[3].dtype))

\* What backward leaves behind: the exception raised, the instance, the
\* data of the returned gradients, and gy as the call leaves it.
BackwardOutcome(exc, self, out, gy) ==
    [exc |-> exc, self |-> self, out |-> out, gy |-> gy]

\* the instance after g = f(x, gamma, gy): mean, inv_std, orig_mask and
\* mask are the arrays f was given, the retained inputs the arrays x and
\* gamma
AfterGrad(self, g) ==
    [self EXCEPT !.mean = g.f.mean, !.inv_std = g.f.inv_std,
                 !.orig_mask = g.f.orig_mask, !.mask = g.f.mask,
                 !.inputs = <<g.inputs[1], g.inputs[2]>>]

\* line 98: return f(x, gamma, gy)
BackwardOf(self, g) == BackwardOutcome(g.exc, AfterGrad(self, g), g.out, g.inputs[3])

\* the same, giving up the retained inputs
BackwardOf_once(self, g) ==
    BackwardOutcome(g.exc, [AfterGrad(self, g) EXCEPT !.inputs = None], g.out,
                    g.inputs[3])

\* a backward that gives up the retained inputs once it has used them
backward_once(self, grad_outputs) ==
    IF self.inputs = None
    THEN BackwardOutcome("TypeError", self, None, grad_outputs[1])
    ELSE BackwardOf_once(self,
             GradForward(BatchNormalizationGrad(self.eps, self.mode, self.expander,
                             self.axis, self.mean, self.inv_std, self.active_len,
                             self.orig_mask, self.mask),
                         <<self.inputs[1], self.inputs[2], grad_outputs[1]>>))

\* BatchNormalization.backward: get_retained_inputs needs the inputs a
\* completed apply recorded, and self.mode, self.expander and self.axis are
\* attributes only forward sets.
backward(self, grad_outputs) ==
    IF self.inputs = None
    THEN BackwardOutcome("TypeError", self, None, grad_outputs[1])
    ELSE IF self.mode = None \/ self.expander = None \/ self.axis = None
    THEN BackwardOutcome("AttributeError", self, None, grad_outputs[1])
    ELSE BackwardOf(self,
             GradForward(BatchNormalizationGrad(self.eps, self.mode, self.expander,
                             self.axis, self.mean, self.inv_std, self.active_len,
                             self.orig_mask, self.mask),
                         <<self.inputs[1], self.inputs[2], grad_outputs[1]>>))

(***************************************************************************)
(* class FixedBatchNormalization                                           *)
(***************************************************************************)
FixedBatchNormalization(eps) ==
    [class |-> "FixedBatchNormalization", eps |-> eps,
     inv_std |-> None, inv_var |-> None,
     expander |-> None, axis |-> None, inputs |-> None]

\* FixedBatchNormalization.check_type_forward
Fixed_check_type_forward(in_types) ==
    /\ Len(in_types) = 5
    /\ LET x_type == in_types[1]
           gamma_type == in_types[2]
           beta_type == in_types[3]
           mean_type == in_types[4]
           var_type == in_types[5]
           M == Len(gamma_type.shape)
       IN  /\ x_type.dtype \in FloatDtypes
           /\ Len(x_type.shape) >= Len(gamma_type.shape) + 1
           /\ SubSeq(x_type.shape, 2, 1 + M) = gamma_type.shape
           /\ gamma_type.dtype = x_type.dtype
           /\ beta_type.dtype = x_type.dtype
           /\ gamma_type.shape = beta_type.shape
           /\ mean_type.dtype = x_type.dtype
           /\ mean_type.shape = gamma_type.shape
           /\ var_type.dtype = x_type.dtype
           /\ var_type.shape = gamma_type.shape

\* line 195, fwd what _apply_bn_fwd has returned
Fixed_return(self, heap, inputs, var, fwd) ==
    IF fwd.exc # ""
    THEN Outcome(fwd.exc, self, heap,
                 <<fwd.x, inputs[2], inputs[3], inputs[4], inputs[5]>>, None,
                 var.data, 0)
    ELSE Outcome("", self, heap,
                 <<fwd.x, inputs[2], inputs[3], inputs[4], inputs[5]>>,
                 <<fwd.ret.data>>, var.data, 0)

\* lines 191-194, var what line 190 has allocated
Fixed_apply(self, heap, inputs, var) ==
    Fixed_return([self EXCEPT !.inv_var = Map(<<"reciprocal">>, var),
                              !.inv_std = Map(<<"sqrt">>, Map(<<"reciprocal">>, var))],
                 heap, inputs, var,
                 _apply_bn_fwd(inputs[1], expand(inputs[4], self.expander),
                               expand(Map(<<"sqrt">>, Map(<<"reciprocal">>, var)),
                                      self.expander),
                               expand(inputs[2], self.expander),
                               expand(inputs[3], self.expander)))

\* FixedBatchNormalization.forward, inputs = <<x, gamma, beta, mean, var>>;
\* line 190: var = var + self.eps allocates a new array
Fixed_forward(self, heap, inputs) ==
    Fixed_apply([self EXCEPT !.expander = ExpanderOf(inputs[1], inputs[2]),
                             !.axis = AxisOf(inputs[1], inputs[2])],
                heap, inputs, Map(<<"plus", self.eps>>, inputs[5]))

(***************************************************************************)
(* FunctionNode.apply as the two entry points use it: the type check, then *)
(* forward; the inputs named by retain_inputs are recorded once forward    *)
(* has returned.                                                           *)
(***************************************************************************)
\* the inputs named by retain_inputs are recorded on the instance only
\* when forward has returned
Record(self, o) ==
    IF o.exc # "" THEN o
    ELSE IF self.class = "BatchNormalization"
    THEN [o EXCEPT !.self.inputs = <<o.inputs[1], o.inputs[2]>>]
    ELSE [o EXCEPT !.self.inputs = <<o.inputs[1], o.inputs[2], o.inputs[4],
                                     o.inputs[5]>>]

apply(self, heap, inputs) ==
    IF self.class = "BatchNormalization"
    THEN IF check_type_forward(inputs)
         THEN Record(self, forward(self, heap, inputs))
         ELSE Outcome("InvalidType", self, heap, inputs, None, None, 0)
    ELSE IF Fixed_check_type_forward(inputs)
         THEN Record(self, Fixed_forward(self, heap, inputs))
         ELSE Outcome("InvalidType", self, heap, inputs, None, None, 0)

\* batch_normalization(x, gamma, beta, **kwargs): the constructor, which
\* may raise RuntimeError, then apply on the new object
batch_normalization(should_use_cudnn, heap, x, gamma, beta, kwargs) ==
    IF CudnnRejects(should_use_cudnn, kwargs.eps)
    THEN Outcome("RuntimeError", None, heap, <<x, gamma, beta>>, None, None, 0)
    ELSE apply(BatchNormalization(should_use_cudnn, kwargs.eps, kwargs.running_mean,
                                  kwargs.running_var, kwargs.decay, kwargs.active_len,
                                  kwargs.mask),
               heap, <<x, gamma, beta>>)

\* fixed_batch_normalization(x, gamma, beta, mean, var, eps)
fixed_batch_normalization(heap, x, gamma, beta, mean, var, eps) ==
    apply(FixedBatchNormalization(eps), heap, <<x, gamma, beta, mean, var>>)

(***************************************************************************)
(* Inputs.                                                                 *)
(***************************************************************************)
MaxSum == 2
MaxCalls == 3
MaxBackward == 2

Arr(shape, dtype, data) == [shape |-> shape, data |-> data, dtype |-> dtype]

RECURSIVE IntSum(_, _)
IntSum(f, S) == IF S = {} THEN 0
                ELSE LET i == CHOOSE j \in S : TRUE IN f[i] + IntSum(f, S \ {i})

\* every x of shape XShape whose elements are naturals that sum to at most
\* MaxSum
XSum == {Arr(XShape, "float32", [i \in Idx |-> R(d[i])]) :
            d \in {e \in [Idx -> 0..MaxSum] : IntSum(e, Idx) <= MaxSum}}

X0 == Arr(XShape, "float32", [i \in Idx |-> R(i[1] + i[2] + i[3])])
X1 == Arr(XShape, "float32", [i \in Idx |-> R(i[1] * i[2] + 2 * i[3])])

\* an x of shape (batch, channel, height, width): it passes the type check
\* with a 1-d gamma
X4d == Arr(<<NB, NC, NL, NL>>, "float32",
           [i \in IdxOf(<<NB, NC, NL, NL>>) |-> R(i[1] + i[2] + i[3] + i[4])])

\* an x of shape (batch, channel): it passes the type check with a 1-d gamma
X2d == Arr(<<NB, NC>>, "float32", [i \in IdxOf(<<NB, NC>>) |-> R(i[1] + 2 * i[2])])

Gamma0 == Arr(<<NC>>, "float32", [c \in Chan |-> R(c + 2)])
Gamma1 == Arr(<<NC>>, "float32", [c \in Chan |-> R(1)])
Beta0 == Arr(<<NC>>, "float32", [c \in Chan |-> R(1 - c)])
Beta1 == Arr(<<NC>>, "float32", [c \in Chan |-> R(0)])

\* gamma and beta of shape (channel, position), x's axes after the first
Gamma2d == Arr(<<NC, NL>>, "float32", [i \in IdxOf(<<NC, NL>>) |-> R(i[1] + 2 * i[2] + 1)])
Beta2d == Arr(<<NC, NL>>, "float32", [i \in IdxOf(<<NC, NL>>) |-> R(i[1] - i[2])])

\* masks of shape (batch, 1, position): one flag per row, for every channel
RowMasks == {Arr(<<NB, 1, NL>>, "bool", d) :
                d \in [IdxOf(<<NB, 1, NL>>) -> BOOLEAN]}

\* masks of x's shape: one flag per element
FullMasks == {Arr(XShape, "bool", d) : d \in [Idx -> BOOLEAN]}

\* masks of fewer axes than x: (position) and (channel, position)
LowMasks == {Arr(<<NL>>, "bool", d) : d \in [Pos -> BOOLEAN]}
            \cup {Arr(<<NC, NL>>, "bool", d) : d \in [IdxOf(<<NC, NL>>) -> BOOLEAN]}

\* the mask (position) that keeps position 0 only
VecMask == Arr(<<NL>>, "bool", [l \in Pos |-> l = 0])

\* a mask of floats, 1.0 at every row
FloatMask == Arr(<<NB, 1, NL>>, "float32", [i \in IdxOf(<<NB, 1, NL>>) |-> R(1)])

\* a mask of integers, 0 at the first row and 1 at the others
IntMask == Arr(<<NB, 1, NL>>, "int32",
               [i \in IdxOf(<<NB, 1, NL>>) |-> IF i = <<0, 0, 0>> THEN 0 ELSE 1])

\* a mask of x's shape whose active positions differ between the channels
MixMask == Arr(XShape, "bool",
               [i \in Idx |-> i \in {<<0, 1, 0>>, <<1, 0, 0>>, <<1, 1, 0>>, <<1, 1, 1>>}])

\* a mask that does not broadcast to x's shape
BadMask == Arr(<<NB, NC, NL + 1>>, "bool",
               [i \in IdxOf(<<NB, NC, NL + 1>>) |-> TRUE])

\* input triples that break one rule of check_type_forward each
BadInputs ==
    {<<X0, Gamma0, Arr(<<NC + 1>>, "float32", [c \in 0..NC |-> R(0)])>>,
     <<Arr(<<NB>>, "float32", [b \in Batch |-> R(b)]), Gamma0, Beta0>>,
     <<X0, [Gamma0 EXCEPT !.dtype = "float64"], Beta0>>,
     <<X0, Gamma0, [Beta0 EXCEPT !.dtype = "float64"]>>,
     <<[X0 EXCEPT !.dtype = "int32"], [Gamma0 EXCEPT !.dtype = "int32"],
       [Beta0 EXCEPT !.dtype = "int32"]>>,
     <<X0, Arr(<<NC + 1>>, "float32", [c \in 0..NC |-> R(1)]),
       Arr(<<NC + 1>>, "float32", [c \in 0..NC |-> R(0)])>>}

Eps0 == R(1)
Decay0 == Rat(9, 10)

\* upstream gradients
GySet == {Arr(XShape, "float32", [i \in Idx |-> R(1)]),
          Arr(XShape, "float32", [i \in Idx |-> R(1 + i[1] + 2 * i[2] - 3 * i[3])])}

\* the keyword arguments of batch_normalization
Kwargs(eps, running_mean, running_var, decay, mask) ==
    [mask |-> mask, eps |-> eps, decay |-> decay, active_len |-> 0,
     running_mean |-> running_mean, running_var |-> running_var]

\* mean, var and eps of the fixed variant
Mean0 == Arr(<<NC>>, "float32", [c \in Chan |-> R(0)])
Var1 == Arr(<<NC>>, "float32", [c \in Chan |-> R(1)])
Mean1 == Arr(<<NC>>, "float32", [c \in Chan |-> R(c + 1)])
Var3 == Arr(<<NC>>, "float32", [c \in Chan |-> R(3 + 5 * c)])
Var01 == Arr(<<NC>>, "float32", [c \in Chan |-> R(c)])
FixedStats == {<<Mean0, Var1, R(0)>>, <<Mean1, Var3, Eps0>>, <<Mean1, Var1, R(0)>>,
               <<Mean0, Var01, R(0)>>}

\* input tuples that break one rule of FixedBatchNormalization's
\* check_type_forward each
BadFixedInputs ==
    {<<X0, Gamma0, Beta0, Arr(<<NC + 1>>, "float32", [c \in 0..NC |-> R(0)]), Var1>>,
     <<X0, Gamma0, Beta0, Mean0, Arr(<<NC + 1>>, "float32", [c \in 0..NC |-> R(1)])>>,
     <<X0, Gamma0, Beta0, [Mean0 EXCEPT !.dtype = "float64"], Var1>>,
     <<X0, Gamma0, Beta0, Mean0, [Var1 EXCEPT !.dtype = "float64"]>>,
     <<X0, Gamma0, Arr(<<NC + 1>>, "float32", [c \in 0..NC |-> R(0)]), Mean0, Var1>>,
     <<Arr(<<NB>>, "float32", [b \in Batch |-> R(b)]), Gamma0, Beta0, Mean0, Var1>>,
     <<X0, [Gamma0 EXCEPT !.dtype = "float64"], Beta0, Mean0, Var1>>}

RunningArgs == {<<None, None>>, <<<<"caller_mean">>, <<"caller_var">>>>,
                <<<<"caller_mean">>, None>>, <<None, <<"caller_var">>>>}

(***************************************************************************)
(* State.  self is the function object of the last call (None before       *)
(* any), heap the arrays that outlive a call, ret what the last call did,  *)
(* ncalls and nback count the forward calls made and the backward calls    *)
(* made on self.  twin is a second, independent run of the same calls on   *)
(* inputs that differ in the padding only (None where no second run is     *)
(* made).  use_cudnn is what chainer.should_use_cudnn('>=auto') answers on *)
(* this machine; no call changes it.                                       *)
(***************************************************************************)
VARIABLES self, heap, ret, ncalls, nback, twin, use_cudnn

vars == <<self, heap, ret, ncalls, nback, twin, use_cudnn>>

Ret(op, args, kw, o) ==
    [op |-> op, exc |-> o.exc, args |-> args, kw |-> kw, inputs |-> o.inputs,
     out |-> o.out, var |-> o.var, m |-> o.m]

NoRet == [m |-> 0, op |-> "none", exc |-> "", var |-> None, inputs |-> None,
          out |-> None, args |-> None, kw |-> None]

HeapOf(ca) ==
    [c \in {"caller_mean", "caller_var", "own_mean", "own_var"} |->
        IF c = "caller_mean" THEN Arr(<<NC>>, "float32", ca[1])
        ELSE IF c = "caller_var" THEN Arr(<<NC>>, "float32", ca[2])
        ELSE None]

Init ==
    /\ self = None
    /\ heap \in {HeapOf(<<[k \in Chan |-> R(0)], [k \in Chan |-> R(1)]>>),
                 HeapOf(<<[k \in Chan |-> R(k + 1)], [k \in Chan |-> R(2)]>>)}
    /\ ret = NoRet
    /\ ncalls = 0
    /\ nback = 0
    /\ twin = None
    /\ use_cudnn \in BOOLEAN

\* a new function object owns no array yet
Fresh(h) == [h EXCEPT !["own_mean"] = None, !["own_var"] = None]

\* f = BatchNormalization(...): a function object that has not been applied
New(lim, kw) ==
    /\ ncalls < lim
    /\ self' = BatchNormalization(use_cudnn, kw.eps, kw.running_mean, kw.running_var,
                                  kw.decay, kw.active_len, kw.mask)
    /\ heap' = Fresh(heap)
    /\ ret' = [NoRet EXCEPT !.op = "new", !.kw = kw,
                            !.exc = IF CudnnRejects(use_cudnn, kw.eps)
                                    THEN "RuntimeError" ELSE ""]
    /\ ncalls' = ncalls + 1
    /\ nback' = 0
    /\ UNCHANGED <<twin, use_cudnn>>

\* the call has returned or raised: o is what it leaves behind
Returns(op, args, kw, o) ==
    /\ self' = o.self
    /\ heap' = o.heap
    /\ ret' = Ret(op, args, kw, o)
    /\ ncalls' = ncalls + 1
    /\ nback' = 0
    /\ UNCHANGED use_cudnn

\* y = batch_normalization(x, gamma, beta, **kw)
Call(lim, x, gamma, beta, kw) ==
    /\ ncalls < lim
    /\ Returns("forward", <<x, gamma, beta>>, kw,
               batch_normalization(use_cudnn, Fresh(heap), x, gamma, beta, kw))
    /\ UNCHANGED twin

\* y = fixed_batch_normalization(x, gamma, beta, mean, var, eps)
FixedCall(lim, x, gamma, beta, mean, var, eps) ==
    /\ ncalls < lim
    /\ Returns("fixed_forward", <<x, gamma, beta, mean, var>>, [eps |-> eps],
               fixed_batch_normalization(Fresh(heap), x, gamma, beta, mean, var, eps))
    /\ UNCHANGED twin

BackwardRet(g, gy) ==
    [op |-> "backward", exc |-> g.exc, args |-> <<gy>>, kw |-> None,
     inputs |-> <<g.gy>>, out |-> g.out, var |-> None, m |-> 0]

\* the backward call has returned or raised: g is what it leaves behind;
\* backward names no running array
BackwardReturns(g, gy) ==
    /\ self' = g.self
    /\ ret' = BackwardRet(g, gy)
    /\ nback' = nback + 1
    /\ UNCHANGED <<heap, ncalls, use_cudnn>>

\* gx, ggamma, gbeta = self.backward((0, 1, 2), (gy,))
Backward(lim, gy) ==
    /\ self # None
    /\ self.class = "BatchNormalization"
    /\ nback < lim
    /\ BackwardReturns(backward(self, <<gy>>), gy)
    /\ UNCHANGED twin

(***************************************************************************)
(* Spec: the life of one function object.  It is made by the constructor   *)
(* or by an entry point, with well-formed and ill-formed inputs, and then  *)
(* asked for gradients up to MaxBackward times.                            *)
(***************************************************************************)
SpecKwargs == {Kwargs(Eps0, r[1], r[2], Decay0, mk) :
                  r \in RunningArgs,
                  mk \in RowMasks \cup {BadMask, VecMask}}

\* the masks that are not boolean arrays: floats, integers, and no mask at
\* all
OddMask(k) == IF k = 1 THEN FloatMask ELSE IF k = 2 THEN IntMask ELSE None

\* eps = 0, which the constructor rejects when cuDNN is in use
SpecZeroEps == {Kwargs(R(0), r[1], r[2], Decay0, mk) :
                   r \in RunningArgs, mk \in {VecMask, BadMask}}

Next ==
    \/ \E kw \in SpecKwargs \cup SpecZeroEps : New(1, kw)
    \/ \E x \in {X0, X1, X2d, X4d}, kw \in SpecKwargs : Call(1, x, Gamma0, Beta0, kw)
    \/ \E x \in {X0, X2d}, r \in RunningArgs, k \in 1..3 :
          Call(1, x, Gamma0, Beta0, Kwargs(Eps0, r[1], r[2], Decay0, OddMask(k)))
    \/ \E kw \in SpecZeroEps : Call(1, X0, Gamma0, Beta0, kw)
    \/ \E kw \in SpecKwargs : Call(1, X0, Gamma2d, Beta2d, kw)
    \/ \E kw \in SpecKwargs :
          Call(1, X0, Arr(<<>>, "float32", [i \in {<<>>} |-> R(2)]),
               Arr(<<>>, "float32", [i \in {<<>>} |-> R(1)]), kw)
    \/ \E i \in BadInputs, kw \in SpecKwargs \cup SpecZeroEps :
          Call(1, i[1], i[2], i[3], kw)
    \/ \E x \in {X0, X1}, s \in FixedStats :
          FixedCall(1, x, Gamma0, Beta0, s[1], s[2], s[3])
    \/ \E i \in BadFixedInputs :
          FixedCall(1, i[1], i[2], i[3], i[4], i[5], Eps0)
    \/ \E gy \in GySet : Backward(MaxBackward, gy)

Spec == Init /\ [][Next]_vars

(***************************************************************************)
(* SpecNum: one masked forward call over every small x: with every mask of *)
(* x's shape or of fewer axes; with the row masks and each way of          *)
(* supplying the running arrays; with a gamma of shape (channel,           *)
(* position); and with eps = 0, with cuDNN and without.  The constructor   *)
(* accepts eps = 1 with and without cuDNN; those calls are made without.   *)
(***************************************************************************)
InitOne ==
    /\ self = None
    /\ heap = HeapOf(<<[k \in Chan |-> R(0)], [k \in Chan |-> R(1)]>>)
    /\ ret = NoRet
    /\ ncalls = 0
    /\ nback = 0
    /\ twin = None
    /\ use_cudnn = FALSE

\* the same, on a machine with cuDNN or without
InitBwd ==
    /\ self = None
    /\ heap = HeapOf(<<[k \in Chan |-> R(0)], [k \in Chan |-> R(1)]>>)
    /\ ret = NoRet
    /\ ncalls = 0
    /\ nback = 0
    /\ twin = None
    /\ use_cudnn \in BOOLEAN

NextNum ==
    /\ ncalls < 1
    /\ \/ /\ ~use_cudnn
          /\ \E x \in XSum, mk \in FullMasks \cup LowMasks :
                Call(1, x, Gamma0, Beta0, Kwargs(Eps0, None, None, Decay0, mk))
       \/ /\ ~use_cudnn
          /\ \E x \in {X0, X1}, r \in RunningArgs \ {<<None, None>>}, mk \in RowMasks :
                Call(1, x, Gamma0, Beta0, Kwargs(Eps0, r[1], r[2], Decay0, mk))
       \/ /\ ~use_cudnn
          /\ \E x \in XSum, mk \in RowMasks \cup {MixMask} :
                Call(1, x, Gamma2d, Beta2d, Kwargs(Eps0, None, None, Decay0, mk))
       \/ \E x \in {X0, X1}, r \in RunningArgs, mk \in RowMasks :
             Call(1, x, Gamma0, Beta0, Kwargs(R(0), r[1], r[2], Decay0, mk))

SpecNum == InitBwd /\ [][NextNum]_vars

(***************************************************************************)
(* SpecSeq: up to MaxCalls masked forward calls one after the other, each  *)
(* on a new function object: with masks that keep the same rows in every   *)
(* channel and with a gamma of shape (channel, position), on the caller's  *)
(* running arrays or on none; with a mask whose active positions differ    *)
(* between the channels and with a mask of integers, on the caller's       *)
(* running arrays.                                                         *)
(***************************************************************************)
\* the caller's running arrays or none, and the row masks that keep every
\* row, no row, or the rows at position 0
SeqKwargs == {Kwargs(Eps0, r[1], r[2], Decay0, mk) :
                 r \in {<<None, None>>, <<<<"caller_mean">>, <<"caller_var">>>>},
                 mk \in {k \in RowMasks :
                            \/ \A i \in DOMAIN k.data : k.data[i]
                            \/ \A i \in DOMAIN k.data : ~k.data[i]
                            \/ \A i \in DOMAIN k.data : k.data[i] <=> (i[3] = 0)}}

NextSeq ==
    /\ ncalls < MaxCalls
    /\ \/ \E x \in {X0, X1}, kw \in SeqKwargs : Call(MaxCalls, x, Gamma0, Beta0, kw)
       \/ Call(MaxCalls, X1, Gamma0, Beta0,
               Kwargs(Eps0, <<"caller_mean">>, <<"caller_var">>, Decay0, MixMask))
       \/ Call(MaxCalls, X0, Gamma0, Beta0,
               Kwargs(Eps0, <<"caller_mean">>, <<"caller_var">>, Decay0, IntMask))
       \/ \E r \in {<<None, None>>, <<<<"caller_mean">>, <<"caller_var">>>>} :
             Call(MaxCalls, X0, Gamma2d, Beta2d,
                  Kwargs(Eps0, r[1], r[2], Decay0, VecMask))

SpecSeq == InitOne /\ [][NextSeq]_vars

(***************************************************************************)
(* SpecFixed: one call of the fixed variant.                               *)
(***************************************************************************)
NextFixed ==
    /\ ncalls < 1
    /\ \E x \in XSum, gamma \in {Gamma0, Gamma1}, beta \in {Beta0, Beta1},
          s \in FixedStats :
           FixedCall(1, x, gamma, beta, s[1], s[2], s[3])

SpecFixed == InitOne /\ [][NextFixed]_vars

(***************************************************************************)
(* SpecBwd: a masked forward call, with eps = 1 or eps = 0, with cuDNN and *)
(* without, with a gamma of shape (channel) or (channel, position), then   *)
(* backward calls whose upstream gradient is finite or holds one NaN.      *)
(***************************************************************************)
BwdKwargs == {Kwargs(Eps0, None, None, Decay0, mk) : mk \in RowMasks \cup {MixMask}}

\* with eps = 0 the variance of a channel whose active elements are equal
\* is 0; the upstream gradient is one of GySet, or one of them with a NaN
NextBwd ==
    \/ \E x \in {X0, X1}, kw \in BwdKwargs : Call(1, x, Gamma0, Beta0, kw)
    \/ \E x \in {X0, X1}, mk \in RowMasks :
          Call(1, x, Gamma0, Beta0, Kwargs(R(0), None, None, Decay0, mk))
    \/ \E x \in {X0, X1}, kw \in BwdKwargs : Call(1, x, Gamma2d, Beta2d, kw)
    \/ \E gy \in GySet \cup {[g EXCEPT !.data[i] = NaN] : g \in GySet, i \in Idx} :
          Backward(1, gy)

SpecBwd == InitBwd /\ [][NextBwd]_vars

(***************************************************************************)
(* SpecPair: two runs side by side.  The second run gets the same mask,    *)
(* gamma, beta, eps, decay and running statistics; its x and gy are those  *)
(* of the first run at the active positions and the padding value          *)
(* elsewhere.                                                              *)
(***************************************************************************)
PadValues == {R(0), R(5), NaN}

\* a with pad at every position the mask leaves out
Padded(a, mask, pad) ==
    LET bm == broadcast_to(mask, a.shape)
    IN  [a EXCEPT !.data = [i \in DOMAIN a.data |->
                               IF bm.data[i] THEN a.data[i] ELSE pad]]

\* the second run after its forward call
TwinOf(args, kw, o) ==
    [self |-> o.self, heap |-> o.heap, ret |-> Ret("forward", args, kw, o)]

PairCall(x, gamma, beta, kw, pad) ==
    /\ ncalls < 1
    /\ Returns("forward", <<x, gamma, beta>>, kw,
               batch_normalization(use_cudnn, Fresh(heap), x, gamma, beta, kw))
    /\ twin' = TwinOf(<<Padded(x, kw.mask, pad), gamma, beta>>, kw,
                      batch_normalization(use_cudnn, Fresh(heap),
                                          Padded(x, kw.mask, pad), gamma, beta, kw))

\* the second run after its backward call
TwinAfter(g, gy) == [twin EXCEPT !.self = g.self, !.ret = BackwardRet(g, gy)]

PairBackward(gy, pad) ==
    /\ twin # None
    /\ twin.ret.op = "forward"
    /\ self # None
    /\ self.class = "BatchNormalization"
    /\ nback < 1
    /\ BackwardReturns(backward(self, <<gy>>), gy)
    /\ twin' = TwinAfter(backward(twin.self, <<Padded(gy, self.orig_mask, pad)>>),
                         Padded(gy, self.orig_mask, pad))

NextPair ==
    \/ \E x \in {X0, X1}, kw \in BwdKwargs, pad \in PadValues :
          PairCall(x, Gamma0, Beta0, kw, pad)
    \/ \E gy \in GySet, pad \in PadValues : PairBackward(gy, pad)

SpecPair == InitOne /\ [][NextPair]_vars

(***************************************************************************)
(* Properties.  In the action formulas the unprimed variables are the      *)
(* state before the call and the primed ones the state it leaves.          *)
(***************************************************************************)
CallerCells == {"caller_mean", "caller_var"}

\* the mask of a forward call, broadcast to x's shape
MaskOf(r) == broadcast_to(r.kw.mask, r.args[1].shape)

RECURSIVE RatSum(_, _)
RatSum(f, S) == IF S = {} THEN R(0)
                ELSE LET i == CHOOSE j \in S : TRUE IN RAdd(f[i], RatSum(f, S \ {i}))

\* the mask marks element i active: True, or an integer other than 0
MaskOn(bm, i) == IF bm.dtype = "bool" THEN bm.data[i] ELSE bm.data[i] # 0

\* the brute-force reference: the elements of channel c the mask marks
\* active, their plain mean and their plain variance
ActiveOf(bm, c) == {i \in DOMAIN bm.data : i[2] = c /\ MaskOn(bm, i)}

\* the mean of the elements of x at the indices A
MeanOver(x, A) == RDiv(RatSum(x.data, A), R(Cardinality(A)))

\* the mean of the squared deviations from mu of the elements of x at A
VarOver(x, A, mu) ==
    RDiv(RatSum([i \in A |-> RMul(RSub(x.data[i], mu), RSub(x.data[i], mu))], A),
         R(Cardinality(A)))

RefMean(x, bm, c) == MeanOver(x, ActiveOf(bm, c))

RefVar(x, bm, c) == VarOver(x, ActiveOf(bm, c), RefMean(x, bm, c))

\* every channel has the same active positions
ChannelUniform(bm) == \A i \in DOMAIN bm.data : bm.data[i] = bm.data[<<i[1], 0, i[3]>>]

\* every channel has the same number k >= 1 of active elements
SameCount(bm) ==
    /\ Cardinality(ActiveOf(bm, 0)) >= 1
    /\ \A c \in Chan : Cardinality(ActiveOf(bm, c)) = Cardinality(ActiveOf(bm, 0))

\* the call got as far as line 75: mean and inv_std are stored on the
\* function object
StatsComputed(s) == s # None /\ s.mean # None

\* the mean and the variance the call computed (var is the variance plus
\* eps) are those of the reference, channel by channel
StatsMatch(r, s) ==
    \A c \in Chan :
        /\ s.mean.data[c] = RefMean(r.args[1], MaskOf(r), c)
        /\ RSub(r.var[c], s.eps) = RefVar(r.args[1], MaskOf(r), c)

\* the constructor of the call's function object raised RuntimeError
Rejected(r, cudnn) == r.op = "forward" /\ CudnnRejects(cudnn, r.kw.eps)

\* C1 (as stated): whenever the masked forward returns a tensor, that tensor
\* is exactly 0 at every position where the broadcast mask is 0.
C1_MaskedOutputIsZero ==
    (ret.op = "forward" /\ ret.exc = "") =>
        \A i \in DOMAIN ret.out[1] : ~MaskOf(ret).data[i] => NumIsZero(ret.out[1][i])

\* C2 (as stated): if every channel has the same number k >= 1 of active
\* elements, at positions that may differ from channel to channel, the mean
\* and variance computed for each channel are the plain mean and variance
\* of that channel's active elements.
C2_StatisticsOfAnyMask ==
    (ret.op = "forward" /\ StatsComputed(self) /\ SameCount(MaskOf(ret)))
        => StatsMatch(ret, self)

\* C2 (amended): if the mask is a boolean array that marks the same k >= 1
\* positions active in every channel, every call that gets as far as
\* computing statistics computes, for each channel, the plain mean and
\* variance of that channel's k active elements, whether or not the call
\* fails later on.  A call whose inputs pass the type check on a 3-d x gets
\* that far unless the constructor has rejected eps.
C2_StatisticsOfRowMask ==
    (/\ ret.op = "forward"
     /\ ret.kw.mask.dtype = "bool"
     /\ ChannelUniform(MaskOf(ret))
     /\ SameCount(MaskOf(ret)))
        => /\ StatsComputed(self) => StatsMatch(ret, self)
           /\ (check_type_forward(ret.args) /\ Len(ret.args[1].shape) = 3)
                 => (StatsComputed(self) <=> ~Rejected(ret, use_cudnn))

\* a call with a mask that keeps some rows and drops others, on data whose
\* active elements differ
C2_Witness ==
    /\ ret.op = "forward"
    /\ ret.exc = "TypeError"
    /\ StatsComputed(self)
    /\ ret.kw.mask.dtype = "bool"
    /\ ChannelUniform(MaskOf(ret))
    /\ Cardinality(ActiveOf(MaskOf(ret), 0)) \in 2..(NB * NL - 1)
    /\ \E c \in Chan : ~RIsZero(RefVar(ret.args[1], MaskOf(ret), c))
    /\ \E i \in Idx : ~MaskOf(ret).data[i] /\ ~RIsZero(ret.args[1].data[i])

\* the running arrays a forward call starts from: the caller's, or zeros
OldRunning(h, ref) == IF ref = None THEN [c \in Chan |-> R(0)] ELSE h[ref[1]].data

\* arr holds decay * old + (1 - decay) * scale * stat[c] for every channel c
UpdatedTo(arr, old, decay, scale, stat) ==
    /\ arr.shape = <<NC>>
    /\ \A c \in Chan :
          arr.data[c] = RAdd(RMul(decay, old[c]),
                             RMul(RMul(RSub(R(1), decay), scale), stat[c]))

\* C3 (as stated): every successful masked forward call leaves in the
\* running arrays it was given (zeros when it was given none)
\*   decay * running_mean + (1 - decay) * mean   and
\*   decay * running_var + (1 - decay) * adjust * var,
\* mean and var - eps the statistics of each channel's active elements, m
\* their number and adjust = m / max(m - 1, 1).
C3_RunningUpdateOfAnyCall ==
    [][(ret'.op = "forward" /\ ret'.exc = "") =>
        LET kw == ret'.kw
            x == ret'.args[1]
            bm == MaskOf(ret')
        IN  /\ heap'[self'.running_mean[1]].shape = <<NC>>
            /\ heap'[self'.running_var[1]].shape = <<NC>>
            /\ \A c \in Chan :
                  /\ heap'[self'.running_mean[1]].data[c] =
                        RAdd(RMul(kw.decay, OldRunning(heap, kw.running_mean)[c]),
                             RMul(RSub(R(1), kw.decay), RefMean(x, bm, c)))
                  /\ heap'[self'.running_var[1]].data[c] =
                        RAdd(RMul(kw.decay, OldRunning(heap, kw.running_var)[c]),
                             RMul(RMul(RSub(R(1), kw.decay),
                                       Rat(Cardinality(ActiveOf(bm, c)),
                                           Max(Cardinality(ActiveOf(bm, c)) - 1, 1))),
                                  RAdd(RefVar(x, bm, c), kw.eps)))]_vars

\* the running statistics of the call are both omitted, or they are two
\* distinct arrays of gamma's shape
RunningPair(h, kw, gamma) ==
    \/ kw.running_mean = None /\ kw.running_var = None
    \/ /\ kw.running_mean # None
       /\ kw.running_var # None
       /\ kw.running_mean # kw.running_var
       /\ h[kw.running_mean[1]].shape = gamma.shape
       /\ h[kw.running_var[1]].shape = gamma.shape

\* C3 (amended): a successful masked forward call with a 1-d gamma, a
\* boolean mask that marks the same positions active in every channel and
\* running statistics that are both omitted or two distinct arrays of
\* gamma's shape
\* leaves in the running arrays it was given (zeros when it was given none)
\*   decay * running_mean + (1 - decay) * mean   and
\*   decay * running_var + (1 - decay) * adjust * var,
\* mean and var - eps the statistics of each channel's active elements, m
\* the number of active positions and adjust = m / max(m - 1, 1); arrays
\* the caller gave are updated in place.
C3_RunningUpdate ==
    [][(/\ ret'.op = "forward"
        /\ ret'.exc = ""
        /\ Len(ret'.args[2].shape) = 1
        /\ ret'.kw.mask.dtype = "bool"
        /\ ChannelUniform(MaskOf(ret'))
        /\ RunningPair(heap, ret'.kw, ret'.args[2])) =>
        LET kw == ret'.kw
            x == ret'.args[1]
            bm == MaskOf(ret')
            m == Cardinality(ActiveOf(bm, 0))
        IN  /\ kw.running_mean # None => self'.running_mean = kw.running_mean
            /\ kw.running_var # None => self'.running_var = kw.running_var
            /\ ret'.m = m
            /\ UpdatedTo(heap'[self'.running_mean[1]],
                         OldRunning(heap, kw.running_mean), kw.decay, R(1),
                         [c \in Chan |-> RefMean(x, bm, c)])
            /\ UpdatedTo(heap'[self'.running_var[1]],
                         OldRunning(heap, kw.running_var), kw.decay,
                         Rat(m, Max(m - 1, 1)),
                         [c \in Chan |-> RAdd(RefVar(x, bm, c), kw.eps)])]_vars

\* a second call that updated the arrays of the caller from two or more
\* active rows
C3_Witness ==
    /\ ret.op = "forward"
    /\ ret.exc = ""
    /\ ncalls >= 2
    /\ ret.args[2] = Gamma0
    /\ ret.kw.mask.dtype = "bool"
    /\ ChannelUniform(MaskOf(ret))
    /\ ret.kw.running_mean = <<"caller_mean">>
    /\ ret.kw.running_var = <<"caller_var">>
    /\ ret.m >= 2
    /\ ~IsNaN(heap["caller_var"].data[0])
    /\ heap["caller_mean"].data[0] # R(0)

\* C4 (as stated): a masked forward call that fails leaves the running
\* arrays of the caller as they were before the call.
C4_FailureLeavesRunningStatistics ==
    [][(ret'.op = "forward" /\ ret'.exc # "") =>
        \A c \in CallerCells : heap'[c] = heap[c]]_vars

\* exactly one of running_mean and running_var is supplied
OneSupplied(kw) == (kw.running_mean = None) # (kw.running_var = None)

\* C5 (as stated): with exactly one of running_mean and running_var
\* supplied the masked forward fails, returns nothing, keeps the references
\* it was given and changes no running array.
C5_OneOfThePairIsAnError ==
    [][(ret'.op = "forward" /\ OneSupplied(ret'.kw)) =>
        /\ ret'.exc # ""
        /\ ret'.out = None
        /\ self' # None =>
              /\ self'.running_mean = ret'.kw.running_mean
              /\ self'.running_var = ret'.kw.running_var
        /\ \A c \in CallerCells : heap'[c] = heap[c]]_vars

\* C6 (as stated): a backward call succeeds only on the recorded state of a
\* completed forward, and only once: before a completed forward, and from
\* the second call on, it fails and returns no gradients.
C6_BackwardConsumesState ==
    ret.op = "backward" =>
        /\ ret.exc = "" => (self.inputs # None /\ nback = 1)
        /\ (self.inputs = None \/ nback > 1) => (ret.exc # "" /\ ret.out = None)

\* C6 (amended): a backward call succeeds only if a forward on the
\* instance has completed: on a new instance, and on one whose forward
\* failed, it fails and returns no gradients.  It consumes nothing: it
\* leaves the instance, the retained x and gamma and gy as they were, so a
\* further backward call with the same gy ends as the one before it did,
\* with the same gradients.
C6_BackwardNeedsForward ==
    [][ret'.op = "backward" =>
        /\ ret.op = "new" => (ret'.exc # "" /\ ret'.out = None)
        /\ (ret.op = "forward" /\ ret.exc # "") => (ret'.exc # "" /\ ret'.out = None)
        /\ (ret.op = "backward" /\ ret'.args = ret.args) =>
              /\ ret'.exc = ret.exc
              /\ ret'.out = ret.out
        /\ self' = self
        /\ ret'.inputs = ret'.args]_vars

\* a second backward call on the same forward state that returned gradients
C6_Witness ==
    /\ ret.op = "backward"
    /\ ret.exc = ""
    /\ nback = 2
    /\ ret.out # None
    /\ self.inputs = <<X1, Gamma0>>
    /\ \E i \in Idx : ~NumIsZero(ret.out[1][i])

\* the call breaks a shape or dtype rule of its variant's type check
BreaksTypeRule(r) ==
    \/ r.op = "forward" /\ r.args \in BadInputs
    \/ r.op = "fixed_forward" /\ r.args \in BadFixedInputs

\* the inputs pass the type check and the mask does not broadcast to x
BreaksMaskRule(r) ==
    /\ r.op = "forward"
    /\ r.args \notin BadInputs
    /\ ~CanBroadcast(asarray(r.kw.mask).shape, r.args[1].shape)

\* C7 (as stated): a call that breaks a rank, shape or dtype rule, the
\* mask's included, fails, returns nothing, and no running statistic is
\* allocated or changed.
C7_ViolationsFailBeforeAnything ==
    [][(BreaksTypeRule(ret') \/ BreaksMaskRule(ret')) =>
        /\ ret'.exc # ""
        /\ ret'.out = None
        /\ heap' = Fresh(heap)]_vars

\* C7 (amended): a call that breaks a rule of the type check fails with
\* InvalidType before forward runs: nothing is returned, allocated or
\* changed.  A mask that does not broadcast is found inside forward: the
\* call fails with ValueError, returns nothing, has computed no statistic
\* and leaves the caller's arrays alone, but zero running arrays have been
\* allocated when none were supplied.  When cuDNN is in use and eps is
\* below 1e-5 either call fails earlier still, with RuntimeError in the
\* constructor: there is no function object and nothing is allocated.
C7_ViolationsFail ==
    [][/\ (BreaksTypeRule(ret') \/ BreaksMaskRule(ret')) /\ Rejected(ret', use_cudnn) =>
            /\ ret'.exc = "RuntimeError"
            /\ ret'.out = None
            /\ ret'.inputs = ret'.args
            /\ self' = None
            /\ heap' = Fresh(heap)
       /\ BreaksTypeRule(ret') /\ ~Rejected(ret', use_cudnn) =>
            /\ ret'.exc = "InvalidType"
            /\ ret'.out = None
            /\ ret'.inputs = ret'.args
            /\ self'.inputs = None
            /\ self'.expander = None
            /\ heap' = Fresh(heap)
            /\ ret'.op = "forward" =>
                  /\ self'.running_mean = ret'.kw.running_mean
                  /\ self'.running_var = ret'.kw.running_var
       /\ BreaksMaskRule(ret') /\ ~Rejected(ret', use_cudnn) =>
            /\ ret'.exc = "ValueError"
            /\ ret'.out = None
            /\ ret'.inputs = ret'.args
            /\ self'.mean = None
            /\ self'.inv_std = None
            /\ \A c \in CallerCells : heap'[c] = heap[c]
            /\ (heap'["own_mean"] # None) <=> (ret'.kw.running_mean = None)
            /\ (heap'["own_var"] # None) <=> (ret'.kw.running_mean = None)]_vars

\* a call with a mask that does not broadcast and no running statistics:
\* it failed and left zero arrays behind
C7_Witness ==
    /\ BreaksMaskRule(ret)
    /\ ret.kw.mask = BadMask
    /\ ret.exc = "ValueError"
    /\ ret.kw.running_mean = None
    /\ heap["own_mean"] = zeros_like(Gamma0)

\* C8: the fixed forward with mean = 0, var = 1 and eps = 0 returns
\* gamma * x + beta at every position, leaves its five inputs as they were
\* and changes no running statistic.
C8_FixedIdentity ==
    [][(/\ ret'.op = "fixed_forward"
        /\ ret'.args[4] = Mean0
        /\ ret'.args[5] = Var1
        /\ ret'.kw.eps = R(0)) =>
        /\ ret'.exc = ""
        /\ \A i \in DOMAIN ret'.args[1].data :
              ret'.out[1][i] =
                 NumR(RAdd(RMul(ret'.args[2].data[i[2]], ret'.args[1].data[i]),
                           ret'.args[3].data[i[2]]))
        /\ ret'.inputs = ret'.args
        /\ heap' = heap]_vars

\* such a call, with a gamma other than 1 and a beta other than 0 on an x
\* that is not all zero
C8_Witness ==
    /\ ret.op = "fixed_forward"
    /\ ret.exc = ""
    /\ ret.args[4] = Mean0
    /\ ret.args[5] = Var1
    /\ ret.kw.eps = R(0)
    /\ ret.args[2] = Gamma0
    /\ ret.args[3] = Beta0
    /\ \E i \in Idx : ~RIsZero(ret.args[1].data[i])

\* C9 (as stated): the gx a masked backward returns is exactly 0 wherever
\* the mask is 0, and gx, ggamma and gbeta are shaped like x, gamma and
\* beta.
C9_MaskedGradientIsZero ==
    (ret.op = "backward" /\ ret.exc = "") =>
        /\ \A i \in Idx :
              ~broadcast_to(self.orig_mask, XShape).data[i] => NumIsZero(ret.out[1][i])
        /\ DOMAIN ret.out[1] = DOMAIN self.inputs[1].data
        /\ DOMAIN ret.out[2] = DOMAIN self.inputs[2].data
        /\ DOMAIN ret.out[3] = DOMAIN self.inputs[2].data

\* C10 (as stated): two runs that differ in the padding only end alike:
\* the same outcome, the same returned arrays (outputs, then gradients) and
\* the same running statistics.
C10_PaddingDoesNotMatter ==
    twin # None =>
        /\ ret.exc = twin.ret.exc
        /\ ret.out = twin.ret.out
        /\ heap = twin.heap
=============================================================================
